---- MODULE Spec2Model ----
(***************************************************************************)
(* Resume Ranking API (app/main.py, app/utils.py).                         *)
(*                                                                         *)
(* One request is handled from start to response.  The two handlers,       *)
(* /extract-criteria and /score-resumes, are modelled step by step: the    *)
(* per-file loop, each attempt of a schema-constrained completion, and     *)
(* the construction of the CSV.  The converters (LibreOffice, pdf2image)   *)
(* and the LLM backend are the environment: their outcomes are chosen      *)
(* nondeterministically.                                                   *)
(***************************************************************************)
EXTENDS Integers, Sequences, FiniteSets, TLC

\* ------------------------------------------------------------------ bounds
MaxFiles == 2
MaxPages == 2

\* --------------------------------------------------------- program constants
MaxRetries == 3
MinScore == 0
MaxScore == 5
StatusOk == 200
StatusBadRequest == 400

\* ------------------------------------------------------------------ helpers
Range(s) == {s[i] : i \in 1..Len(s)}

Max(S) == CHOOSE x \in S : \A y \in S : y <= x

RECURSIVE SumSeq(_)
SumSeq(s) == IF s = <<>> THEN 0 ELSE Head(s) + SumSeq(Tail(s))

\* --------------------------------------------------------------- file names
\* A file name is a sequence of characters.
BobDocx == <<"b", "o", "b", ".", "d", "o", "c", "x">>
AlPdf == <<"a", "l", ".", "p", "d", "f">>
CyPDF == <<"C", "y", ".", "P", "D", "F">>
DiDOCX == <<"D", "i", ".", "D", "O", "C", "X">>
NoTxt == <<"n", "o", ".", "t", "x", "t">>

FileNames == {BobDocx, AlPdf, CyPDF, DiDOCX, NoTxt}

ExtPdf == <<".", "p", "d", "f">>
ExtDocx == <<".", "d", "o", "c", "x">>

\* str.lower() on the characters that occur in FileNames
LowerChar(c) ==
    CASE c = "C" -> "c"
      [] c = "D" -> "d"
      [] c = "F" -> "f"
      [] c = "O" -> "o"
      [] c = "P" -> "p"
      [] c = "X" -> "x"
      [] OTHER -> c

Lower(s) == [i \in 1..Len(s) |-> LowerChar(s[i])]

\* os.path.splitext on a name without directory separators: split at the
\* last dot unless only dots precede it.
SplitExt(p) ==
    LET dots == {i \in 1..Len(p) : p[i] = "."}
        dotIndex == IF dots = {} THEN 0 ELSE Max(dots)
    IN  IF dotIndex > 0 /\ \E j \in 1..(dotIndex - 1) : p[j] # "."
        THEN <<SubSeq(p, 1, dotIndex - 1), SubSeq(p, dotIndex, Len(p))>>
        ELSE <<p, <<>>>>

StartsWith(s, old) == Len(s) >= Len(old) /\ SubSeq(s, 1, Len(old)) = old

\* str.replace(old, new): every non-overlapping occurrence, left to right
RECURSIVE Replace(_, _, _)
Replace(s, old, new) ==
    IF s = <<>> THEN <<>>
    ELSE IF StartsWith(s, old)
         THEN new \o Replace(SubSeq(s, Len(old) + 1, Len(s)), old, new)
         ELSE <<Head(s)>> \o Replace(Tail(s), old, new)

\* FILE_TYPE_TO_EXTRACTOR
FILE_TYPE_TO_EXTRACTOR == (ExtPdf :> "PdfReader") @@ (ExtDocx :> "DocxReader")

\* get_extractor: the extension of the lower-cased name decides
ExtOf(filename) == SplitExt(Lower(filename))[2]
Supported(filename) == ExtOf(filename) \in DOMAIN FILE_TYPE_TO_EXTRACTOR
get_extractor(filename) == FILE_TYPE_TO_EXTRACTOR[ExtOf(filename)]

\* tmp_path = f"/tmp/{file.filename}"
TmpPath(filename) == <<"/tmp", filename>>

\* ------------------------------------------------------------ rasterization
\* What the host's tools do for one document: LibreOffice's exit and output,
\* its stderr, pdf2image's result and the page count of the document.
StderrTexts == {"", "soffice: load failed"}

ToolOutcomes ==
    [office : {"nonzero", "written", "nofile"},
     stderr : StderrTexts,
     raster : {"ok", "fail"},
     pages : 1..MaxPages]

\* An exception: its type, str(e) as a fixed text followed by an argument,
\* and (__context__) the type and argument of the exception that was being
\* handled when it was raised.
NoContext == [type |-> "", arg |-> <<>>]
ExcFrom(type, text, arg, context) ==
    [type |-> type, text |-> text, arg |-> arg, context |-> context]
Exc(type, text, arg) == ExcFrom(type, text, arg, NoContext)
NoExc == Exc("", "", <<>>)

Raised(e) == [ok |-> FALSE, value |-> <<>>, exc |-> e]
Returned(v) == [ok |-> TRUE, value |-> v, exc |-> NoExc]

\* pdf2image.convert_from_path: one image per page of the document `src`,
\* in page order, or a failure.
convert_from_path(src, env) ==
    IF env.raster = "fail"
    THEN Raised(Exc("PDFPageCountError", "Unable to get page count.", <<>>))
    ELSE Returned([p \in 1..env.pages |-> <<"img", src, p>>])

\* page.save(format="JPEG") followed by base64.b64encode(...).decode()
Base64Jpeg(img) == <<"b64", img[2], img[3]>>

\* PdfReader.convert_to_images
PdfReader_convert_to_images(path, src, env) == convert_from_path(src, env)

\* The file LibreOffice writes into --outdir: the input's stem plus ".pdf".
OfficeWrites(tmp_dir, docx_path, env) ==
    IF env.office = "written"
    THEN {<<tmp_dir, SplitExt(docx_path[2])[1] \o ExtPdf>>}
    ELSE {}

\* subprocess.run([... 'libreoffice' ...], check=True, stderr=PIPE)
subprocess_run(env) ==
    IF env.office = "nonzero"
    THEN Raised(Exc("CalledProcessError", "returned non-zero exit status",
                    <<env.stderr>>))
    ELSE Returned(<<>>)

\* convert_docx_to_pdf, had the raised message left out the tool's stderr.
convert_docx_to_pdf_without_stderr(env) ==
    LET result == subprocess_run(env)
    IN  IF ~result.ok
        THEN Raised(ExcFrom("Exception", "Error converting DOCX to PDF: ", <<>>,
                            [type |-> result.exc.type, arg |-> result.exc.arg]))
        ELSE Returned(<<>>)

\* DocxReader.convert_docx_to_pdf
convert_docx_to_pdf(env) ==
    LET result == subprocess_run(env)
    IN  IF ~result.ok
        THEN Raised(ExcFrom("Exception", "Error converting DOCX to PDF: ",
                            result.exc.arg,
                            [type |-> result.exc.type, arg |-> result.exc.arg]))
        ELSE Returned(<<>>)

\* tempfile.TemporaryDirectory(): mkdtemp makes a directory under a name no
\* directory made before it has (its random suffix, here the number of
\* directories made so far plus one).
TemporaryDirectory(made) == <<"/tmp/tmp", made + 1>>

\* A directory itself, as an entry of the file system next to its files.
DirEntry(dir) == <<dir, <<>>>>

\* TemporaryDirectory_exit, had the directory been removed only at the end
\* of a with block that was left without an exception.
TemporaryDirectory_exit_on_return(fs, dir, ok) ==
    IF ok THEN {p \in fs : p[1] # dir} ELSE fs

\* TemporaryDirectory.__exit__: the directory and all it holds are removed,
\* however the with block was left.
TemporaryDirectory_exit(fs, dir, ok) == {p \in fs : p[1] # dir}

\* pdf_output_path of DocxReader.convert_to_images
DocxReader_pdf_output_path(docx_path, tmp_dir) ==
    <<tmp_dir, Replace(docx_path[2], ExtDocx, ExtPdf)>>

\* DocxReader.convert_to_images, the body of the with block
DocxReader_convert_to_images(docx_path, src, env, tmp_dir) ==
    LET pdf_output_path == DocxReader_pdf_output_path(docx_path, tmp_dir)
        conv == convert_docx_to_pdf(env)
    IN  IF ~conv.ok THEN conv
        ELSE IF pdf_output_path \notin OfficeWrites(tmp_dir, docx_path, env)
        THEN Raised(Exc("FileNotFoundError", "PDF file was not created at: ",
                        pdf_output_path[2]))
        ELSE convert_from_path(src, env)

\* The temporary files DocxReader.convert_to_images leaves: the with block
\* makes the directory, LibreOffice writes into it, and the block's exit
\* runs whether the body returned or raised.
DocxReader_tmp_after(docx_path, src, env, made, fs) ==
    LET tmp_dir == TemporaryDirectory(made)
        inside == fs \cup {DirEntry(tmp_dir)}
                     \cup OfficeWrites(tmp_dir, docx_path, env)
        images == DocxReader_convert_to_images(docx_path, src, env, tmp_dir)
    IN  TemporaryDirectory_exit(inside, tmp_dir, images.ok)

\* convert_to_base64 of either reader
convert_to_base64(reader, path, src, env, tmp_dir) ==
    LET images == IF reader = "PdfReader"
                  THEN PdfReader_convert_to_images(path, src, env)
                  ELSE DocxReader_convert_to_images(path, src, env, tmp_dir)
    IN  IF ~images.ok THEN images
        ELSE Returned([i \in 1..Len(images.value) |-> Base64Jpeg(images.value[i])])

\* Whether the tools a reader runs did their work: pdf2image returned the
\* pages and, for a DOCX, LibreOffice exited with 0 and wrote its PDF.
ToolsSucceed(reader, env) ==
    /\ env.raster = "ok"
    /\ reader = "DocxReader" => env.office = "written"

\* One run of convert_to_base64 as the host saw it: the upload, whether the
\* tools succeeded and on how many pages, and what the call gave back.
ToolRun(filename, src, env, result) ==
    LET succeeded == ToolsSucceed(get_extractor(filename), env)
    IN  [filename |-> filename, src |-> src, succeeded |-> succeeded,
         pages |-> IF succeeded THEN env.pages ELSE 0,
         ok |-> result.ok, images |-> result.value]

\* ------------------------------------------------------------------- inputs
\* The `criteria` form field: text that is not JSON, the JSON value null, or
\* a JSON list of criterion strings.
CriteriaList == <<"A", "B">>
CriteriaKeys == Range(CriteriaList)

CriteriaInputs ==
    {[json |-> FALSE, value |-> <<>>, isList |-> FALSE],
     [json |-> TRUE, value |-> <<>>, isList |-> FALSE],
     [json |-> TRUE, value |-> CriteriaList, isList |-> TRUE]}

\* json_loads, had it answered text that is not JSON with an empty list.
json_loads_lenient(text) ==
    IF text.json
    THEN Returned(text)
    ELSE Returned([json |-> TRUE, value |-> <<>>, isList |-> TRUE])

\* json.loads
json_loads(text) ==
    IF text.json
    THEN Returned(text)
    ELSE Raised(Exc("JSONDecodeError", "Expecting value", <<>>))

FileLists == UNION {[1..n -> FileNames] : n \in 1..MaxFiles}

\* ------------------------------------------------------------ LLM replies
\* the scores a reply may hold: the lowest, one inside the range and one
\* above it (the schema asks for an int, nothing more)
ScoreValues == {MinScore, 3, MaxScore + 1}
\* candidate_name as the model returns it: empty, or a name
AliceLee == <<"A", "l", "i", "c", "e", " ", "L", "e", "e">>
CandidateNames == {<<>>, AliceLee}

\* A dict is a sequence of <<key, value>> pairs with distinct keys, in
\* insertion order.
Keys(d) == {d[i][1] : i \in 1..Len(d)}
KeySeq(d) == [i \in 1..Len(d) |-> d[i][1]]
Get(d, k) == (CHOOSE i \in 1..Len(d) : d[i][1] = k)

\* d[k] = v
DictSet(d, k, v) ==
    IF k \in Keys(d)
    THEN [i \in 1..Len(d) |-> IF d[i][1] = k THEN <<k, v>> ELSE d[i]]
    ELSE Append(d, <<k, v>>)

InjectiveSeqs(S) ==
    UNION {{q \in [1..n -> S] : \A a, b \in 1..n : a # b => q[a] # q[b]} :
           n \in 0..Cardinality(S)}

\* every scores object over the criteria, in every key order
ScoreDicts ==
    UNION {{[i \in 1..Len(ks) |-> <<ks[i], vs[i]>>] :
            vs \in [1..Len(ks) -> ScoreValues]} : ks \in InjectiveSeqs(CriteriaKeys)}

ValuesOf(d) == [i \in 1..Len(d) |-> d[i][2]]

ScoreFields == {"candidate_name", "scores", "total_score"}

\* What the backend may answer to a scoring request: a JSON object with all
\* three fields (whose total the model may or may not have added up), an
\* object that lacks a field, or a transport failure.
ScoreReplies ==
    {[kind |-> "object", fields |-> ScoreFields, candidate_name |-> n,
      scores |-> d, total_score |-> SumSeq(ValuesOf(d)) + off] :
        n \in CandidateNames, d \in ScoreDicts, off \in {0, 1}}
    \cup {[kind |-> "object", fields |-> {"candidate_name", "scores"},
           candidate_name |-> AliceLee, scores |-> <<>>, total_score |-> 0]}
    \cup {[kind |-> "network", fields |-> {}, candidate_name |-> <<>>,
           scores |-> <<>>, total_score |-> 0]}

\* ScoreResponse(BaseModel): the three required fields, nothing more
ScoreResponse_validate(reply) == reply.fields = ScoreFields

ScoreResponse(reply) ==
    [candidate_name |-> reply.candidate_name, scores |-> reply.scores,
     total_score |-> reply.total_score]

\* -------------------------------------------------------------------- state
VARIABLES
    pc,               \* position of the handler
    endpoint,         \* "extract" or "score"
    criteria,         \* the criteria form field as received
    criteria_list,    \* json.loads(criteria)
    files,            \* the uploaded files' names, in upload order
    idx,              \* loop position (files, then resumes)
    resumes_base64,   \* per processed file, its base64 page images
    candidate_names,  \* per processed file, the name's stem
    score_results,    \* ScoreResponses collected so far
    attempts,         \* attempts made by the completion in progress
    response,         \* the HTTP response, status 0 while none
    disk,             \* paths written under /tmp
    converted,        \* upload positions a converter was run for
    llm_calls,        \* upload positions an LLM request was issued for
    scored_src,       \* per collected ScoreResponse, the document it came from
    log_errors,       \* error records handed to the logger
    raised,           \* the exception that reached the request boundary
    returned,         \* the field sets of the objects completions returned
    tmp_made,         \* temporary directories made so far
    tmp_fs,           \* directories and files existing under them
    tmp_paths,        \* per DOCX rasterization, its pdf_output_path
    tool_runs         \* per convert_to_base64 call, what the tools did

vars == <<pc, endpoint, criteria, criteria_list, files, idx, resumes_base64,
          candidate_names, score_results, attempts, response, disk, converted,
          llm_calls, scored_src, log_errors, raised, returned, tmp_made,
          tmp_fs, tmp_paths, tool_runs>>

\* what only a rasterization changes
raster_vars == <<tmp_made, tmp_fs, tmp_paths, tool_runs>>

NoError == [prefix |-> "", file |-> <<>>, text |-> "", arg |-> <<>>]
NoCsv == [header |-> <<>>, rows |-> <<>>]

NoResponse ==
    [status |-> 0, kind |-> "none", error |-> NoError, criteria |-> <<>>,
     csv |-> NoCsv]

\* JSONResponse(status_code=400, content={"error": prefix + file + str(e)})
ErrorResponse(prefix, file, e) ==
    [status |-> StatusBadRequest, kind |-> "json",
     error |-> [prefix |-> prefix, file |-> file, text |-> e.text, arg |-> e.arg],
     criteria |-> <<>>, csv |-> NoCsv]

Init ==
    /\ pc = "idle"
    /\ endpoint = "none"
    /\ criteria = [json |-> FALSE, value |-> <<>>, isList |-> FALSE]
    /\ criteria_list = <<>>
    /\ files = <<>>
    /\ idx = 0
    /\ resumes_base64 = <<>>
    /\ candidate_names = <<>>
    /\ score_results = <<>>
    /\ attempts = 0
    /\ response = NoResponse
    /\ disk = {}
    /\ converted = {}
    /\ llm_calls = {}
    /\ scored_src = <<>>
    /\ log_errors = 0
    /\ raised = NoExc
    /\ returned = {}
    /\ tmp_made = 0
    /\ tmp_fs = {}
    /\ tmp_paths = <<>>
    /\ tool_runs = <<>>

\* A POST /score-resumes arrives with a criteria field and 1..MaxFiles files.
ReceiveScoreResumes ==
    /\ pc = "idle"
    /\ \E c \in CriteriaInputs, fs \in FileLists :
        /\ criteria' = c
        /\ files' = fs
    /\ endpoint' = "score"
    /\ pc' = "parse"
    /\ UNCHANGED <<criteria_list, idx, resumes_base64, candidate_names,
                   score_results, attempts, response, disk, converted,
                   llm_calls, scored_src, log_errors, raised, returned>>
    /\ UNCHANGED raster_vars

\* score_resumes_endpoint, lines 101-112: parse the criteria, or answer 400.
ParseCriteria ==
    /\ pc = "parse"
    /\ LET parsed == json_loads(criteria)
       IN  IF parsed.ok
           THEN /\ criteria_list' = parsed.value
                /\ pc' = "files"
                /\ idx' = 1
                /\ UNCHANGED <<response, log_errors, raised>>
           ELSE /\ log_errors' = log_errors + 1
                /\ raised' = parsed.exc
                /\ response' = ErrorResponse(
                       "Invalid criteria format. Must be a JSON list of strings.",
                       <<>>, NoExc)
                /\ pc' = "done"
                /\ UNCHANGED <<criteria_list, idx>>
    /\ UNCHANGED <<endpoint, criteria, files, resumes_base64, candidate_names,
                   score_results, attempts, disk, converted, llm_calls,
                   scored_src, returned>>
    /\ UNCHANGED raster_vars

\* ProcessUpload, had the upload been written to /tmp before the extension
\* was looked at.
ProcessUpload_writes_first(filename, src, env, made, fs) ==
    IF ~Supported(filename)
    THEN [result |-> Raised(Exc("ValueError", "Unsupported file type: ",
                                ExtOf(filename))),
          written |-> {TmpPath(filename)}, ran |-> FALSE, logged |-> 1,
          tmp_made |-> made, tmp_fs |-> fs, pdf_paths |-> <<>>]
    ELSE LET docx == get_extractor(filename) = "DocxReader"
             tmp_dir == TemporaryDirectory(made)
         IN  [result |-> convert_to_base64(get_extractor(filename),
                                           TmpPath(filename), src, env, tmp_dir),
              written |-> {TmpPath(filename)}, ran |-> TRUE, logged |-> 0,
              tmp_made |-> IF docx THEN made + 1 ELSE made,
              tmp_fs |-> IF docx
                         THEN DocxReader_tmp_after(TmpPath(filename), src, env,
                                                   made, fs)
                         ELSE fs,
              pdf_paths |-> IF docx
                            THEN <<DocxReader_pdf_output_path(TmpPath(filename),
                                                              tmp_dir)>>
                            ELSE <<>>]

\* One file of a request, as both handlers treat it (main.py 67-72, 115-120):
\* the extension check, the write to /tmp and the rasterization.
ProcessUpload(filename, src, env, made, fs) ==
    IF ~Supported(filename)
    THEN [result |-> Raised(Exc("ValueError", "Unsupported file type: ",
                                ExtOf(filename))),
          written |-> {}, ran |-> FALSE, logged |-> 1,
          tmp_made |-> made, tmp_fs |-> fs, pdf_paths |-> <<>>]
    ELSE LET docx == get_extractor(filename) = "DocxReader"
             tmp_dir == TemporaryDirectory(made)
         IN  [result |-> convert_to_base64(get_extractor(filename),
                                           TmpPath(filename), src, env, tmp_dir),
              written |-> {TmpPath(filename)}, ran |-> TRUE, logged |-> 0,
              tmp_made |-> IF docx THEN made + 1 ELSE made,
              tmp_fs |-> IF docx
                         THEN DocxReader_tmp_after(TmpPath(filename), src, env,
                                                   made, fs)
                         ELSE fs,
              pdf_paths |-> IF docx
                            THEN <<DocxReader_pdf_output_path(TmpPath(filename),
                                                              tmp_dir)>>
                            ELSE <<>>]

\* FileLoopNext, had the except block logged the failure and gone on to the
\* next file.
FileLoopNext_continue(ok, i, n) ==
    IF i = n THEN [pc |-> "scoring", idx |-> 1]
    ELSE [pc |-> "files", idx |-> i + 1]

\* Where the file loop goes after file i of n: on, or out by the return in
\* the except block.
FileLoopNext(ok, i, n) ==
    IF ~ok THEN [pc |-> "done", idx |-> i]
    ELSE IF i = n THEN [pc |-> "scoring", idx |-> 1]
    ELSE [pc |-> "files", idx |-> i + 1]

\* score_resumes_endpoint, lines 113-127: one iteration of the file loop.
ProcessFile ==
    /\ pc = "files"
    /\ idx <= Len(files)
    /\ \E env \in ToolOutcomes :
        LET file == files[idx]
            out == ProcessUpload(file, idx, env, tmp_made, tmp_fs)
            next == FileLoopNext(out.result.ok, idx, Len(files))
        IN  /\ disk' = disk \cup out.written
            /\ tmp_made' = out.tmp_made
            /\ tmp_fs' = out.tmp_fs
            /\ tmp_paths' = tmp_paths \o out.pdf_paths
            /\ tool_runs' = IF out.ran
                            THEN Append(tool_runs,
                                        ToolRun(file, idx, env, out.result))
                            ELSE tool_runs
            /\ converted' = IF out.ran THEN converted \cup {idx} ELSE converted
            /\ pc' = next.pc
            /\ idx' = next.idx
            /\ IF out.result.ok
               THEN /\ resumes_base64' = Append(resumes_base64, out.result.value)
                    /\ candidate_names' = Append(candidate_names, SplitExt(file)[1])
                    /\ log_errors' = log_errors + out.logged
                    /\ UNCHANGED <<response, raised>>
               ELSE /\ log_errors' = log_errors + out.logged + 1
                    /\ raised' = out.result.exc
                    /\ response' = ErrorResponse("Error processing file ", file,
                                                 out.result.exc)
                    /\ UNCHANGED <<resumes_base64, candidate_names>>
    /\ UNCHANGED <<endpoint, criteria, criteria_list, files, score_results,
                   attempts, llm_calls, scored_src, returned>>

\* The document a list of page images was made from.
SrcOf(images) == images[1][2]

\* The exception a completion ends with after its last failed attempt.
RetryExhausted ==
    Exc("InstructorRetryException", "validation failed after retries", <<>>)
NetworkError == Exc("APIConnectionError", "Connection error.", <<>>)

\* AttemptOutcome, had the last permitted attempt handed back whatever
\* object it received.
AttemptOutcome_returns_last(made, valid, network, retriesTransport) ==
    IF network /\ ~retriesTransport THEN "network"
    ELSE IF ~network /\ valid THEN "return"
    ELSE IF made + 1 >= MaxRetries THEN (IF network THEN "exhausted" ELSE "return")
    ELSE "retry"

\* patched_client.chat.completions.create(..., max_retries=3): the outcome
\* of one attempt, given the attempts made before it.  "retry" re-issues
\* the same request.  Whether a transport failure counts as a failed
\* attempt or leaves the call at once depends on the installed client
\* library (`retriesTransport`); both stay within max_retries attempts.
AttemptOutcome(made, valid, network, retriesTransport) ==
    IF network /\ ~retriesTransport THEN "network"
    ELSE IF ~network /\ valid THEN "return"
    ELSE IF made + 1 >= MaxRetries THEN "exhausted"
    ELSE "retry"

\* score_multiple_resumes_against_criteria, one attempt of the completion
\* for resume idx; main.py 129-134 turns any exception into a 400.
ScoreAttempt ==
    /\ pc = "scoring"
    /\ idx <= Len(resumes_base64)
    /\ IF ~criteria_list.isList
       THEN \* building the prompt iterates the criteria: TypeError
            /\ response' = ErrorResponse("Error scoring resumes: ", <<>>,
                   Exc("TypeError", "object is not iterable", <<>>))
            /\ raised' = Exc("TypeError", "object is not iterable", <<>>)
            /\ log_errors' = log_errors + 1
            /\ pc' = "done"
            /\ UNCHANGED <<idx, score_results, attempts, llm_calls, scored_src,
                           returned>>
       ELSE \E reply \in ScoreReplies, retriesTransport \in BOOLEAN :
            LET images == resumes_base64[idx]
                outcome == AttemptOutcome(attempts, ScoreResponse_validate(reply),
                                          reply.kind = "network", retriesTransport)
                exc == IF outcome = "network" THEN NetworkError ELSE RetryExhausted
            IN  /\ llm_calls' = llm_calls \cup {SrcOf(images)}
                /\ CASE outcome = "return" ->
                          /\ score_results' = Append(score_results, ScoreResponse(reply))
                          /\ scored_src' = Append(scored_src, SrcOf(images))
                          /\ returned' = returned \cup {reply.fields}
                          /\ attempts' = 0
                          /\ idx' = idx + 1
                          /\ pc' = IF idx = Len(resumes_base64) THEN "build" ELSE "scoring"
                          /\ UNCHANGED <<response, log_errors, raised>>
                     [] outcome = "retry" ->
                          /\ attempts' = attempts + 1
                          /\ UNCHANGED <<score_results, scored_src, idx, pc,
                                         response, log_errors, raised, returned>>
                     [] outcome \in {"exhausted", "network"} ->
                          /\ attempts' = attempts + 1
                          /\ raised' = exc
                          /\ response' = ErrorResponse("Error scoring resumes: ", <<>>, exc)
                          /\ log_errors' = log_errors + 1
                          /\ pc' = "done"
                          /\ UNCHANGED <<score_results, scored_src, idx, returned>>
    /\ UNCHANGED <<endpoint, criteria, criteria_list, files, resumes_base64,
                   candidate_names, disk, converted>>
    /\ UNCHANGED raster_vars

\* ---------------------------------------------------------------- the CSV
NameColumn == "Candidate Name"
TotalColumn == "Total Score"

StrCell(s) == [t |-> "str", n |-> 0, s |-> s]
IntCell(n) == [t |-> "int", n |-> n, s |-> <<>>]
FloatCell(n) == [t |-> "float", n |-> n, s |-> <<>>]
EmptyCell == [t |-> "empty", n |-> 0, s |-> <<>>]

\* CandidateName, had the name the model returned been used as it is.
CandidateName_as_returned(score_response, fallback) ==
    score_response.candidate_name

\* main.py 141: score_response.candidate_name or candidate_names[idx]
CandidateName(score_response, fallback) ==
    IF score_response.candidate_name # <<>> THEN score_response.candidate_name
    ELSE fallback

RECURSIVE MergeScores(_, _)
MergeScores(entry, scores) ==
    IF scores = <<>> THEN entry
    ELSE MergeScores(DictSet(entry, Head(scores)[1], IntCell(Head(scores)[2])),
                     Tail(scores))

\* main.py 139-147: the dict built for one ScoreResponse
Entry(score_response, fallback) ==
    DictSet(MergeScores(<<<<NameColumn, StrCell(CandidateName(score_response, fallback))>>>>,
                        score_response.scores),
            TotalColumn, IntCell(score_response.total_score))

\* pd.DataFrame(list of dicts): the columns are the keys in the order in
\* which the records first show them.
RECURSIVE AppendNew(_, _)
AppendNew(cols, ks) ==
    IF ks = <<>> THEN cols
    ELSE AppendNew(IF Head(ks) \in Range(cols) THEN cols ELSE Append(cols, Head(ks)),
                   Tail(ks))

RECURSIVE Columns(_)
Columns(results) ==
    IF results = <<>> THEN <<>>
    ELSE LET n == Len(results)
         IN  AppendNew(Columns(SubSeq(results, 1, n - 1)), KeySeq(results[n]))

\* CsvCell, had missing values been filled with 0 (fillna(0)) before writing.
CsvCell_fillna(results, r, col) ==
    LET entry == results[r]
    IN  IF col \notin Keys(entry) THEN IntCell(0)
        ELSE entry[Get(entry, col)][2]

\* df.to_csv: a record without the column gives an empty cell; a numeric
\* column with a missing value holds floats.
CsvCell(results, r, col) ==
    LET entry == results[r]
        complete == \A q \in 1..Len(results) : col \in Keys(results[q])
    IN  IF col \notin Keys(entry) THEN EmptyCell
        ELSE LET v == entry[Get(entry, col)][2]
             IN  IF v.t = "int" /\ ~complete THEN FloatCell(v.n) ELSE v

to_csv(results) ==
    LET cols == Columns(results)
    IN  [header |-> cols,
         rows |-> [r \in 1..Len(results) |->
                      [c \in 1..Len(cols) |-> CsvCell(results, r, cols[c])]]]

\* Results, had the rows been ranked by total score (highest first).
Results_ranked(responses, names) ==
    LET n == Len(responses)
        perm == CHOOSE q \in [1..n -> 1..n] :
                    /\ \A a, b \in 1..n : a # b => q[a] # q[b]
                    /\ \A a, b \in 1..n :
                          a < b => responses[q[a]].total_score >= responses[q[b]].total_score
    IN  [i \in 1..n |-> Entry(responses[perm[i]], names[perm[i]])]

Results(responses, names) ==
    [i \in 1..Len(responses) |-> Entry(responses[i], names[i])]

\* score_resumes_endpoint, lines 136-158
BuildCsv ==
    /\ pc = "build"
    /\ response' = [status |-> StatusOk, kind |-> "csv", error |-> NoError,
                    criteria |-> <<>>,
                    csv |-> to_csv(Results(score_results, candidate_names))]
    /\ pc' = "done"
    /\ UNCHANGED <<endpoint, criteria, criteria_list, files, idx, resumes_base64,
                   candidate_names, score_results, attempts, disk, converted,
                   llm_calls, scored_src, log_errors, raised, returned>>
    /\ UNCHANGED raster_vars

\* --------------------------------------------------------- /extract-criteria
ExtractionFields == {"extracted_content", "criteria"}

\* What the backend may answer to an extraction request.
ExtractionReplies ==
    {[kind |-> "object", fields |-> ExtractionFields, criteria |-> c] :
        c \in {<<>>, CriteriaList}}
    \cup {[kind |-> "object", fields |-> {"extracted_content"}, criteria |-> <<>>]}
    \cup {[kind |-> "network", fields |-> {}, criteria |-> <<>>]}

\* ExtractionResponse(BaseModel)
ExtractionResponse_validate(reply) == reply.fields = ExtractionFields

\* A POST /extract-criteria arrives with one file.
ReceiveExtractCriteria ==
    /\ pc = "idle"
    /\ \E f \in FileNames : files' = <<f>>
    /\ endpoint' = "extract"
    /\ idx' = 1
    /\ pc' = "x_raster"
    /\ UNCHANGED <<criteria, criteria_list, resumes_base64, candidate_names,
                   score_results, attempts, response, disk, converted,
                   llm_calls, scored_src, log_errors, raised, returned>>
    /\ UNCHANGED raster_vars

\* extract_criteria_endpoint, lines 66-72 and 75-76
ExtractRasterize ==
    /\ pc = "x_raster"
    /\ \E env \in ToolOutcomes :
        LET file == files[1]
            out == ProcessUpload(file, 1, env, tmp_made, tmp_fs)
        IN  /\ disk' = disk \cup out.written
            /\ tmp_made' = out.tmp_made
            /\ tmp_fs' = out.tmp_fs
            /\ tmp_paths' = tmp_paths \o out.pdf_paths
            /\ tool_runs' = IF out.ran
                            THEN Append(tool_runs,
                                        ToolRun(file, 1, env, out.result))
                            ELSE tool_runs
            /\ converted' = IF out.ran THEN converted \cup {1} ELSE converted
            /\ log_errors' = log_errors + out.logged
            /\ IF out.result.ok
               THEN /\ resumes_base64' = <<out.result.value>>
                    /\ pc' = "x_llm"
                    /\ UNCHANGED <<response, raised>>
               ELSE /\ response' = ErrorResponse("", <<>>, out.result.exc)
                    /\ raised' = out.result.exc
                    /\ pc' = "done"
                    /\ UNCHANGED resumes_base64
    /\ UNCHANGED <<endpoint, criteria, criteria_list, files, idx, candidate_names,
                   score_results, attempts, llm_calls, scored_src, returned>>

\* extract_criteria_endpoint, lines 73-76: one attempt of
\* LLM_CLIENT.extract_criteria_json
ExtractAttempt ==
    /\ pc = "x_llm"
    /\ \E reply \in ExtractionReplies, retriesTransport \in BOOLEAN :
        LET images == resumes_base64[1]
            outcome == AttemptOutcome(attempts, ExtractionResponse_validate(reply),
                                      reply.kind = "network", retriesTransport)
            exc == IF outcome = "network" THEN NetworkError ELSE RetryExhausted
        IN  /\ llm_calls' = llm_calls \cup {SrcOf(images)}
            /\ CASE outcome = "return" ->
                      /\ attempts' = 0
                      /\ response' = [status |-> StatusOk, kind |-> "json",
                                      error |-> NoError, criteria |-> reply.criteria,
                                      csv |-> NoCsv]
                      /\ returned' = returned \cup {reply.fields}
                      /\ pc' = "done"
                      /\ UNCHANGED raised
                 [] outcome = "retry" ->
                      /\ attempts' = attempts + 1
                      /\ UNCHANGED <<response, pc, raised, returned>>
                 [] outcome \in {"exhausted", "network"} ->
                      /\ attempts' = attempts + 1
                      /\ raised' = exc
                      /\ UNCHANGED returned
                      /\ response' = ErrorResponse("", <<>>, exc)
                      /\ pc' = "done"
    /\ UNCHANGED <<endpoint, criteria, criteria_list, files, idx, resumes_base64,
                   candidate_names, score_results, disk, converted, scored_src,
                   log_errors>>
    /\ UNCHANGED raster_vars

Next ==
    \/ ReceiveExtractCriteria
    \/ ExtractRasterize
    \/ ExtractAttempt
    \/ ReceiveScoreResumes
    \/ ParseCriteria
    \/ ProcessFile
    \/ ScoreAttempt
    \/ BuildCsv

Spec == Init /\ [][Next]_vars

\* =================================================================== claims
ColIndex(csv, col) == CHOOSE c \in 1..Len(csv.header) : csv.header[c] = col
CellAt(csv, r, col) == csv.rows[r][ColIndex(csv, col)]
IsNumber(cell) == cell.t \in {"int", "float"}

\* /score-resumes has answered with the CSV
Succeeded == pc = "done" /\ endpoint = "score" /\ response.status = StatusOk

\* row r of the CSV shows the name (when the model gave one), every score
\* and the total of the ScoreResponse sr
RowCarries(csv, r, sr) ==
    /\ sr.candidate_name # <<>> => CellAt(csv, r, NameColumn).s = sr.candidate_name
    /\ \A j \in 1..Len(sr.scores) :
          /\ sr.scores[j][1] \in Range(csv.header)
          /\ IsNumber(CellAt(csv, r, sr.scores[j][1]))
          /\ CellAt(csv, r, sr.scores[j][1]).n = sr.scores[j][2]
    /\ CellAt(csv, r, TotalColumn).n = sr.total_score

\* C1: resumes are scored one at a time in upload order (the i-th collected
\* ScoreResponse answers a request made of the i-th upload's pages, and no
\* request is issued for a later upload before that), and a successful
\* /score-resumes answer has exactly one data row per uploaded file, row i
\* carrying the name, scores and total of the i-th file's ScoreResponse.
RowsFollowUploadOrder ==
    /\ scored_src = [i \in 1..Len(scored_src) |-> i]
    /\ llm_calls \subseteq 1..(Len(scored_src) + 1)
    /\ Succeeded =>
          /\ Len(response.csv.rows) = Len(files)
          /\ Len(score_results) = Len(files)
          /\ \A i \in 1..Len(files) : RowCarries(response.csv, i, score_results[i])

\* C1 witness: two resumes, the later one with the higher total, answered
\* with a CSV.
RowsFollowUploadOrder_witness ==
    /\ Succeeded
    /\ Len(files) = 2
    /\ score_results[1].total_score < score_results[2].total_score
    /\ score_results[1].scores # score_results[2].scores

\* the criterion keys that some collected ScoreResponse holds
KeysSeen == UNION {Keys(score_results[i].scores) : i \in 1..Len(score_results)}

InKeysSeen(k) == k \in KeysSeen

\* C2: the header of a successful /score-resumes answer is "Candidate Name",
\* then the criterion keys seen in any ScoreResponse in the order of the
\* supplied criteria list, then "Total Score".
HeaderFollowsCriteriaList ==
    Succeeded =>
        response.csv.header =
            <<NameColumn>> \o SelectSeq(criteria_list.value, InKeysSeen) \o <<TotalColumn>>

\* C3: a /score-resumes request either answers 200 with a row for every
\* uploaded file, all of them rasterized and scored, or answers 400 without
\* any CSV; after a failure while rasterizing no resume is scored, and after
\* a failure while scoring resume k no later resume is scored.
FailFastBatch ==
    (endpoint = "score" /\ pc = "done") =>
        \/ /\ response.status = StatusOk
           /\ response.kind = "csv"
           /\ raised = NoExc
           /\ Len(resumes_base64) = Len(files)
           /\ Len(score_results) = Len(files)
           /\ Len(response.csv.rows) = Len(files)
        \/ /\ response.status = StatusBadRequest
           /\ response.kind = "json"
           /\ response.csv = NoCsv
           /\ raised # NoExc
           /\ response.error.prefix = "Error processing file " => llm_calls = {}
           /\ response.error.prefix = "Error scoring resumes: " =>
                 /\ llm_calls \subseteq 1..idx
                 /\ Len(score_results) = idx - 1

\* C3 witness: scoring the first of two rasterized resumes failed.
FailFastBatch_witness ==
    /\ endpoint = "score" /\ pc = "done"
    /\ response.status = StatusBadRequest
    /\ response.error.prefix = "Error scoring resumes: "
    /\ Len(resumes_base64) = 2
    /\ idx = 1
    /\ llm_calls = {1}

RECURSIVE SumCells(_, _, _)
SumCells(csv, r, cols) ==
    IF cols = {} THEN 0
    ELSE LET c == CHOOSE x \in cols : TRUE
         IN  (IF IsNumber(csv.rows[r][c]) THEN csv.rows[r][c].n ELSE 0)
             + SumCells(csv, r, cols \ {c})

\* C4: in every row of a successful /score-resumes answer the "Total Score"
\* cell equals the sum of the row's per-criterion score cells.
TotalIsSumOfScores ==
    Succeeded =>
        \A r \in 1..Len(response.csv.rows) :
            CellAt(response.csv, r, TotalColumn).n =
                SumCells(response.csv, r,
                         {c \in 1..Len(response.csv.header) :
                              response.csv.header[c] \notin {NameColumn, TotalColumn}})

\* the extension as the claim reads it: the name from its last dot on
Extension(f) ==
    LET dots == {i \in 1..Len(f) : f[i] = "."}
    IN  IF dots = {} THEN <<>> ELSE SubSeq(f, Max(dots), Len(f))

OutsideSupported(f) == Lower(Extension(f)) \notin {ExtPdf, ExtDocx}

InvalidCriteriaMessage == "Invalid criteria format. Must be a JSON list of strings."

\* the handler has dealt with the upload at position i
Passed(i) ==
    \/ pc \in {"files", "x_raster"} /\ idx > i
    \/ pc \in {"scoring", "build", "x_llm"}
    \/ /\ pc = "done"
       /\ response.error.prefix # InvalidCriteriaMessage
       /\ response.error.prefix = "Error processing file " => idx >= i

MalformedCriteriaProcessesNothing ==
    (endpoint = "score" /\ ~criteria.json /\ pc # "parse") =>
        /\ pc = "done"
        /\ response.status = StatusBadRequest
        /\ response.kind = "json"
        /\ response.error.prefix # ""
        /\ disk = {}
        /\ converted = {}
        /\ llm_calls = {}
        /\ resumes_base64 = <<>>

\* C6 witness: malformed criteria arrived with two supported uploads and the
\* request was answered.
MalformedCriteriaProcessesNothing_witness ==
    /\ endpoint = "score" /\ pc = "done"
    /\ ~criteria.json
    /\ Len(files) = 2
    /\ \A i \in 1..2 : ~OutsideSupported(files[i])
    /\ response.status = StatusBadRequest

CompletionWithinLimit ==
    /\ attempts <= MaxRetries
    /\ raised = RetryExhausted => attempts = MaxRetries
    /\ returned \subseteq {ScoreFields, ExtractionFields}

\* An upper bound on the steps a request still has to take: every attempt
\* that is left in every completion that is left, and the other steps.
StepsLeft ==
    CASE pc = "done" -> 0
      [] pc = "build" -> 1
      [] pc = "scoring" -> 1 + (Len(resumes_base64) - idx + 1) * MaxRetries - attempts
      [] pc = "files" -> 1 + Len(files) * MaxRetries + (Len(files) - idx + 1)
      [] pc = "parse" -> 2 + Len(files) * (MaxRetries + 1)
      [] pc = "x_llm" -> MaxRetries - attempts
      [] pc = "x_raster" -> MaxRetries + 1
      [] OTHER -> 3 + MaxFiles * (MaxRetries + 1)

NameCellIsNameOrStem ==
    Succeeded =>
        \A i \in 1..Len(files) :
            LET cell == CellAt(response.csv, i, NameColumn).s
                name == score_results[i].candidate_name
                file == files[i]
            IN  IF name # <<>> THEN cell = name
                ELSE /\ Len(cell) < Len(file)
                     /\ SubSeq(file, 1, Len(cell)) = cell
                     /\ Lower(SubSeq(file, Len(cell) + 1, Len(file))) \in {ExtPdf, ExtDocx}

\* C8 witness: the model named the first candidate and returned an empty
\* name for the second, whose file is bob.docx.
NameCellIsNameOrStem_witness ==
    /\ Succeeded
    /\ Len(files) = 2
    /\ files[1] # files[2]
    /\ files[2] = BobDocx
    /\ score_results[1].candidate_name # <<>>
    /\ score_results[2].candidate_name = <<>>
    /\ CellAt(response.csv, 2, NameColumn).s = <<"b", "o", "b">>

\* C9: an exception that reaches the request boundary ends the request with
\* a 400 JSON answer that carries a non-empty error message, a 200 answer is
\* given only when nothing was raised, and when LibreOffice exited non-zero
\* the message holds the stderr of that run.
EveryFailureAnswers400 ==
    /\ raised # NoExc =>
          /\ pc = "done"
          /\ response.status = StatusBadRequest
          /\ response.kind = "json"
          /\ response.error.prefix # "" \/ response.error.text # ""
    /\ response.status = StatusOk => raised = NoExc
    /\ pc = "done" => response.status \in {StatusOk, StatusBadRequest}
    /\ raised.context.type = "CalledProcessError" =>
          /\ response.error.text = "Error converting DOCX to PDF: "
          /\ response.error.arg = raised.context.arg

\* C9 witness: /extract-criteria got a DOCX for which LibreOffice exited
\* non-zero with a message on stderr.
EveryFailureAnswers400_witness ==
    /\ endpoint = "extract" /\ pc = "done"
    /\ raised.context.type = "CalledProcessError"
    /\ raised.context.arg = <<"soffice: load failed">>
    /\ response.status = StatusBadRequest

\* C10: in a successful /score-resumes answer a criterion column's cell is
\* empty for every candidate whose ScoreResponse has no score for that
\* criterion, and a cell shows the number 0 only when that candidate's
\* ScoreResponse scored the criterion 0.
MissingScoreIsEmpty ==
    Succeeded =>
        \A r \in 1..Len(response.csv.rows), c \in 1..Len(response.csv.header) :
            LET key == response.csv.header[c]
                cell == response.csv.rows[r][c]
                scores == score_results[r].scores
            IN  key \notin {NameColumn, TotalColumn} =>
                    /\ key \notin Keys(scores) => cell.t = "empty"
                    /\ (IsNumber(cell) /\ cell.n = 0) =>
                          /\ key \in Keys(scores)
                          /\ scores[Get(scores, key)][2] = 0

\* C10 witness: the first candidate was scored 0 on A and the second was not
\* scored on A at all.
MissingScoreIsEmpty_witness ==
    /\ Succeeded
    /\ Len(files) = 2
    /\ "A" \in Keys(score_results[1].scores)
    /\ score_results[1].scores[Get(score_results[1].scores, "A")][2] = 0
    /\ "A" \notin Keys(score_results[2].scores)
    /\ CellAt(response.csv, 2, "A").t = "empty"

\* C11: once a request has been answered, with success or with an error, no
\* file made from the uploaded bytes is left under /tmp for another request
\* to read or overwrite.
NoUploadOutlivesRequest ==
    pc = "done" => disk = {}

\* C12: every per-criterion score in a successful /score-resumes answer is a
\* number from 0 to 5.
ScoresWithinRange ==
    Succeeded =>
        \A r \in 1..Len(response.csv.rows), c \in 1..Len(response.csv.header) :
            (response.csv.header[c] \notin {NameColumn, TotalColumn}
             /\ IsNumber(response.csv.rows[r][c])) =>
                /\ response.csv.rows[r][c].n >= MinScore
                /\ response.csv.rows[r][c].n <= MaxScore

\* C13: the intermediate PDF of a DOCX rasterization lies in a temporary
\* directory made by that very call; nothing of that directory is left once
\* the call has ended, whether it returned the pages or raised (non-zero
\* exit of the converter, no PDF written, pdf2image failing); and no two
\* rasterizations use the same intermediate path.
TempLocationScoped ==
    /\ tmp_fs = {}
    /\ Len(tmp_paths) = tmp_made
    /\ \A k \in 1..Len(tmp_paths) : tmp_paths[k][1] = TemporaryDirectory(k - 1)
    /\ \A a, b \in 1..Len(tmp_paths) : a # b => tmp_paths[a] # tmp_paths[b]

\* Two uploads of the same name were rasterized, the first to its pages, the
\* second ending with no PDF written.
TempLocationScoped_witness ==
    /\ pc = "done"
    /\ files = <<BobDocx, BobDocx>>
    /\ Len(resumes_base64) = 1
    /\ Len(tmp_paths) = 2
    /\ raised.type = "FileNotFoundError"
    /\ tmp_fs = {}

\* C14: every upload the extension check accepts and whose tools succeed is
\* rasterized to exactly one encoded image per page of the document, in page
\* order, and that list is the one handed on to the LLM.
OnePageImagePerPage ==
    \A k \in 1..Len(tool_runs) :
        LET run == tool_runs[k]
        IN  (Supported(run.filename) /\ run.succeeded) =>
                /\ run.ok
                /\ run.images = [p \in 1..run.pages |-> <<"b64", run.src, p>>]
                /\ \E i \in 1..Len(resumes_base64) :
                       resumes_base64[i] = run.images
====
